---------------------------- MODULE Spec2Model ----------------------------
(***************************************************************************)
(* A model of the mesc Rust crate's types (ChainId, EndpointQuery,         *)
(* Endpoint, RpcConfig) and of the mesc_cli printing functions.            *)
(*                                                                         *)
(* Strings whose characters the code inspects (chain ids) are sequences of *)
(* Unicode code points: '0'..'9' are 48..57, ' ' is 32, 'a' is 97.         *)
(* Opaque strings (endpoint names, urls) are TLA+ strings.                 *)
(* Option<T> is a sequence of length 0 (None) or 1 (Some).                 *)
(***************************************************************************)
EXTENDS Integers, Sequences, FiniteSets

VARIABLES
    unit,       \* which part of the crate the run exercises
    lhs, rhs,   \* chain_ids: the two ChainId conversions made so far
    ord,        \* chain_ids: Option<Ordering>, the result of lhs.cmp(&rhs)
    query,      \* query: Option<EndpointQuery>, the builder the caller holds
    hist,       \* query: the builder steps that returned Ok since new()
    last,       \* query: Option of the last builder call and what it did
    config,     \* resolve: Option<RpcConfig>, the configuration loaded
    request,    \* resolve: Option of the profile and chain id asked for
    resolved,   \* resolve: Option of the resolution's result
    cli,        \* printing: Option of the printing call made and its arguments
    out         \* printing: Option of what the call printed and returned

chainVars == <<lhs, rhs, ord>>
queryVars == <<query, hist, last>>
resolveVars == <<config, request, resolved>>
printVars == <<cli, out>>
vars == <<unit, chainVars, queryVars, resolveVars, printVars>>
exceptChain == <<unit, queryVars, resolveVars, printVars>>
exceptQuery == <<unit, chainVars, resolveVars, printVars>>
exceptResolve == <<unit, chainVars, queryVars, printVars>>
exceptPrint == <<unit, chainVars, queryVars, resolveVars>>

----------------------------------------------------------------------------
(* Bounds of the model. *)

\* longest short input string
MaxLen == 3
\* how far beyond the padding width the long input strings go
MaxOver == 1
\* largest unsigned integer converted
MaxUint == 11
\* most builder steps applied to one EndpointQuery
MaxSteps == 3
\* most endpoints handed to print_endpoints
MaxEndpoints == 3

----------------------------------------------------------------------------
(* Rust values. *)

None == <<>>
Some(x) == <<x>>
Unwrap(o) == o[1]

Ok(v) == [ok |-> TRUE, val |-> v]
Err(e) == [ok |-> FALSE, err |-> e]

InvalidChainId(s) == <<"InvalidChainId", s>>
NotImplemented(s) == <<"NotImplemented", s>>

Min(S) == CHOOSE x \in S : \A y \in S : x <= y

----------------------------------------------------------------------------
(* ChainId: a tuple struct around a String. *)

ChainId(s) == <<s>>

null_chain_id == ChainId(<<48>>)

\* impl Display for ChainId: write!(f, "{}", self.0)
Display(c) == c[1]

\* char::is_ascii_digit
IsAsciiDigit(c) == c >= 48 /\ c <= 57

\* self.chars().all(|c| c.is_ascii_digit()): true of the empty string
AllAsciiDigits(s) == \A i \in 1..Len(s) : IsAsciiDigit(s[i])

\* u8/u16/u32/u64/u128/usize to_string: decimal, no leading zeros
RECURSIVE UintToString(_)
UintToString(n) ==
    IF n < 10 THEN <<48 + n>>
    ELSE UintToString(n \div 10) \o <<48 + (n % 10)>>

\* impl From<uN> for ChainId
FromUint(n) == ChainId(UintToString(n))

\* impl TryIntoChainId for ChainId
TryIntoChainIdChainId(c) == Ok(c)

\* (variant: a conversion that normalises, dropping one leading zero)
TryIntoChainIdStringTrim(s) ==
    IF AllAsciiDigits(s)
    THEN Ok(ChainId(IF Len(s) > 1 /\ s[1] = 48 THEN Tail(s) ELSE s))
    ELSE Err(InvalidChainId(s))

\* impl TryIntoChainId for String
TryIntoChainIdString(s) ==
    IF AllAsciiDigits(s) THEN Ok(ChainId(s)) ELSE Err(InvalidChainId(s))

\* impl TryIntoChainId for &str
TryIntoChainIdStr(s) ==
    IF AllAsciiDigits(s) THEN Ok(ChainId(s)) ELSE Err(InvalidChainId(s))

\* impl TryIntoChainId for uN
TryIntoChainIdUint(n) == Ok(ChainId(UintToString(n)))

\* impl TryIntoChainId for &[u8]
TryIntoChainIdBytes(b) == Err(NotImplemented("binary chain_id"))

\* const PadWidth: the width in format!("{:>079}", ..)
PadWidth == 79

\* format!("{:>079}", s) of a String: right-aligned to 79 characters.  The
\* `0` flag asks for sign-aware zero padding of NUMBERS; str's Display goes
\* through Formatter::pad, which fills with the fill character, and no fill
\* character is given before `>`, so the fill is the default ' ' (32).  A
\* string of 79 characters or more is written as it is.
\* (variant: the fill '0', as format!("{:0>79}", ..) would give)
FormatPadZeroFill(s) ==
    IF Len(s) >= PadWidth THEN s
    ELSE [i \in 1..(PadWidth - Len(s)) |-> 48] \o s

FormatPad(s) ==
    IF Len(s) >= PadWidth THEN s
    ELSE [i \in 1..(PadWidth - Len(s)) |-> 32] \o s

\* String::cmp: lexicographic by bytes (here ASCII, so by code point); a
\* proper prefix is Less.
StringCmp(s, t) ==
    LET n == IF Len(s) < Len(t) THEN Len(s) ELSE Len(t)
        diff == {i \in 1..n : s[i] # t[i]}
    IN  IF diff = {}
        THEN IF Len(s) < Len(t) THEN "Less"
             ELSE IF Len(s) > Len(t) THEN "Greater" ELSE "Equal"
        ELSE IF s[Min(diff)] < t[Min(diff)] THEN "Less" ELSE "Greater"

\* impl Ord for ChainId
ChainIdCmp(self, other) ==
    LET self_str == FormatPad(self[1])
        other_str == FormatPad(other[1])
    IN  StringCmp(self_str, other_str)

\* #[derive(Eq, PartialEq)] on ChainId: equality of the wrapped strings
ChainIdEq(a, b) == a[1] = b[1]

----------------------------------------------------------------------------
(* Inputs of the chain id conversions. *)

\* '0', '1', '7', 'a'
Alphabet == {48, 49, 55, 97}

ShortStrings == UNION {[1..n -> Alphabet] : n \in 0..MaxLen}

\* a digit followed by copies of another, around the padding width
LongStrings ==
    {[i \in 1..n |-> IF i = 1 THEN d1 ELSE d2] :
        d1 \in {49, 57}, d2 \in {48, 57},
        n \in (PadWidth - 1)..(PadWidth + MaxOver)}

InputStrings == ShortStrings \cup LongStrings

Uints == 0..MaxUint

\* One conversion: what was called, on what, and what it returned.
Conv(kind, arg, res) == [kind |-> kind, arg |-> arg, res |-> res]

----------------------------------------------------------------------------
(* chain_ids: make two ChainIds, then compare them. *)

ChainIdle == lhs = None /\ rhs = None /\ ord = None
QueryIdle == query = None /\ hist = <<>> /\ last = None
ResolveIdle == config = None /\ request = None /\ resolved = None
PrintIdle == cli = None /\ out = None

InitChainIds ==
    /\ unit = "chain_ids"
    /\ ChainIdle
    /\ QueryIdle
    /\ ResolveIdle
    /\ PrintIdle

\* Store a conversion in the first free slot.
Put(c) ==
    /\ IF lhs = None
       THEN lhs' = Some(c) /\ rhs' = rhs
       ELSE lhs' = lhs /\ rhs' = Some(c)
    /\ UNCHANGED <<ord, exceptChain>>

CallNullChainId ==
    /\ unit = "chain_ids" /\ rhs = None
    /\ Put(Conv("null", <<>>, Ok(null_chain_id)))

CallFromUint ==
    /\ unit = "chain_ids" /\ rhs = None
    /\ \E n \in Uints : Put(Conv("uint", <<n>>, Ok(FromUint(n))))

CallTryIntoString ==
    /\ unit = "chain_ids" /\ rhs = None
    /\ \E s \in InputStrings : Put(Conv("text", s, TryIntoChainIdString(s)))

CallTryIntoStr ==
    /\ unit = "chain_ids" /\ rhs = None
    /\ \E s \in InputStrings : Put(Conv("text", s, TryIntoChainIdStr(s)))

CallTryIntoUint ==
    /\ unit = "chain_ids" /\ rhs = None
    /\ \E n \in Uints : Put(Conv("uint", <<n>>, TryIntoChainIdUint(n)))

CallTryIntoBytes ==
    /\ unit = "chain_ids" /\ rhs = None
    /\ \E b \in {<<>>, <<49>>} : Put(Conv("bytes", b, TryIntoChainIdBytes(b)))

\* try_into_chain_id on a ChainId made before
CallTryIntoChainId ==
    /\ unit = "chain_ids"
    /\ lhs # None /\ rhs = None
    /\ Unwrap(lhs).res.ok
    /\ rhs' = Some(Conv("chain_id", Unwrap(lhs).res.val[1],
                        TryIntoChainIdChainId(Unwrap(lhs).res.val)))
    /\ UNCHANGED <<lhs, ord, exceptChain>>

CallCmp ==
    /\ unit = "chain_ids"
    /\ lhs # None /\ rhs # None /\ ord = None
    /\ Unwrap(lhs).res.ok /\ Unwrap(rhs).res.ok
    /\ ord' = Some(ChainIdCmp(Unwrap(lhs).res.val, Unwrap(rhs).res.val))
    /\ UNCHANGED <<lhs, rhs, exceptChain>>

\* both values go out of scope
DropChainIds ==
    /\ unit = "chain_ids"
    /\ rhs # None
    /\ lhs' = None /\ rhs' = None /\ ord' = None
    /\ UNCHANGED exceptChain

NextChainIds ==
    \/ CallNullChainId
    \/ CallFromUint
    \/ CallTryIntoString
    \/ CallTryIntoStr
    \/ CallTryIntoUint
    \/ CallTryIntoBytes
    \/ CallTryIntoChainId
    \/ CallCmp
    \/ DropChainIds

SpecChainIds == InitChainIds /\ [][NextChainIds]_vars

----------------------------------------------------------------------------
(* Properties of the chain id conversions and of the ordering. *)

Lhs == Unwrap(lhs)
Rhs == Unwrap(rhs)
Slots == {c \in {lhs, rhs} : c # None}

HasNonDigit(s) == \E i \in 1..Len(s) : s[i] \notin 48..57

\* a non-negative integer written in decimal without leading zeros
IsCanonical(s) ==
    /\ Len(s) >= 1
    /\ ~HasNonDigit(s)
    /\ Len(s) > 1 => s[1] # 48

\* a < b as integers, for canonical decimal strings a and b: fewer digits,
\* or as many and a smaller digit at the first place where they differ
NumLess(a, b) ==
    \/ Len(a) < Len(b)
    \/ /\ Len(a) = Len(b)
       /\ \E i \in 1..Len(a) :
            /\ a[i] < b[i]
            /\ \A j \in 1..(i - 1) : a[j] = b[j]

Compared == unit = "chain_ids" /\ ord # None

\* C1: for canonical decimal strings a < b of any lengths, the ChainIds made
\* from them by try_into_chain_id compare Less.
C1_OrderFollowsMagnitude ==
    (Compared /\ Lhs.kind = "text" /\ Rhs.kind = "text"
        /\ IsCanonical(Lhs.arg) /\ IsCanonical(Rhs.arg)
        /\ NumLess(Lhs.arg, Rhs.arg))
    => Unwrap(ord) = "Less"

\* C2: every ChainId a constructor returns wraps a non-empty string of ASCII
\* digits.
C2_NonEmptyDigits ==
    \A c \in Slots :
        Unwrap(c).res.ok =>
            /\ Len(Unwrap(c).res.val[1]) >= 1
            /\ ~HasNonDigit(Unwrap(c).res.val[1])

\* C3: try_into_chain_id on a string s is Err(InvalidChainId(s)) exactly when
\* s has a character that is no ASCII digit, and otherwise Ok of a ChainId
\* whose Display is s.
C3_RejectsExactlyNonDigits ==
    \A c \in Slots :
        Unwrap(c).kind = "text" =>
            IF HasNonDigit(Unwrap(c).arg)
            THEN /\ ~Unwrap(c).res.ok
                 /\ Unwrap(c).res.err = InvalidChainId(Unwrap(c).arg)
            ELSE /\ Unwrap(c).res.ok
                 /\ Display(Unwrap(c).res.val) = Unwrap(c).arg

\* a rejected string beside an accepted one with a leading zero
C3_Witness ==
    /\ unit = "chain_ids" /\ lhs # None /\ rhs # None
    /\ Lhs.kind = "text" /\ ~Lhs.res.ok /\ Lhs.arg = <<49, 97>>
    /\ Rhs.kind = "text" /\ Rhs.res.ok /\ Rhs.arg = <<48, 48, 55>>

\* C8: cmp returns Equal exactly when the two ChainIds are equal under the
\* derived equality.
C8_EqualIffSame ==
    Compared =>
        (Unwrap(ord) = "Equal" <=> ChainIdEq(Lhs.res.val, Rhs.res.val))

\* "7" compared with "007"
C8_Witness ==
    /\ Compared
    /\ Lhs.res.val = ChainId(<<55>>) /\ Rhs.res.val = ChainId(<<48, 48, 55>>)
    /\ Unwrap(ord) # "Equal"

----------------------------------------------------------------------------
(* EndpointQuery and its builder. *)

EndpointQuery(c, n, u) ==
    [chain_id |-> c, name_contains |-> n, url_contains |-> u]

\* EndpointQuery::new(): Self::default()
EndpointQueryNew == EndpointQuery(None, None, None)

\* The argument of chain_id<T: TryIntoChainId>: its type and its value.
Arg(t, v) == [t |-> t, v |-> v]

\* chain_id.try_into_chain_id(), by the argument's type
TryIntoChainId(x) ==
    CASE x.t = "String" -> TryIntoChainIdString(x.v)
      [] x.t = "str" -> TryIntoChainIdStr(x.v)
      [] x.t = "uint" -> TryIntoChainIdUint(x.v[1])
      [] x.t = "ChainId" -> TryIntoChainIdChainId(ChainId(x.v))
      [] x.t = "bytes" -> TryIntoChainIdBytes(x.v)

\* What a builder step does: the value it returns and the value of its local
\* `self` as it returns (moved into the Ok, or dropped on the error path).
Step(ret, self) == [ret |-> ret, self |-> self]

\* (variant: the field assigned before the error is looked at)
EndpointQueryChainIdEager(self, chain_id) ==
    LET r == TryIntoChainId(chain_id)
        assigned == [self EXCEPT !.chain_id = IF r.ok THEN Some(r.val) ELSE None]
    IN  IF r.ok THEN Step(Ok(assigned), assigned) ELSE Step(Err(r.err), assigned)

\* EndpointQuery::chain_id: the `?` returns the error before the assignment
EndpointQueryChainId(self, chain_id) ==
    LET r == TryIntoChainId(chain_id)
    IN  IF ~r.ok THEN Step(Err(r.err), self)
        ELSE LET assigned == [self EXCEPT !.chain_id = Some(r.val)]
             IN  Step(Ok(assigned), assigned)

\* (variant: name written into the url field)
EndpointQueryNameIntoUrl(self, q) ==
    LET assigned == [self EXCEPT !.url_contains = Some(q)]
    IN  Step(Ok(assigned), assigned)

\* EndpointQuery::name
EndpointQueryName(self, q) ==
    LET assigned == [self EXCEPT !.name_contains = Some(q)]
    IN  Step(Ok(assigned), assigned)

\* EndpointQuery::url
EndpointQueryUrl(self, q) ==
    LET assigned == [self EXCEPT !.url_contains = Some(q)]
    IN  Step(Ok(assigned), assigned)

\* One builder call, by name.
Apply(self, call) ==
    CASE call.fn = "chain_id" -> EndpointQueryChainId(self, call.arg)
      [] call.fn = "name" -> EndpointQueryName(self, call.arg)
      [] call.fn = "url" -> EndpointQueryUrl(self, call.arg)

----------------------------------------------------------------------------
(* Inputs of the builder. *)

ChainArgs ==
    {Arg("str", s) : s \in {<<49>>, <<49, 48>>, <<>>, <<49, 97>>, <<97>>}}
        \cup {Arg("String", <<55>>), Arg("uint", <<5>>),
              Arg("ChainId", <<48>>), Arg("bytes", <<49>>)}

NameArgs == {"alch", "infura"}
UrlArgs == {"https", "wss"}

BuilderCall(fn, arg) == [fn |-> fn, arg |-> arg]

\* The record of a call: the call, the builder before it, what it did.
Called(call, before, step) ==
    [call |-> call, before |-> before, ret |-> step.ret, self |-> step.self]

----------------------------------------------------------------------------
(* query: build an EndpointQuery step by step. *)

InitQuery ==
    /\ unit = "query"
    /\ ChainIdle
    /\ QueryIdle
    /\ ResolveIdle
    /\ PrintIdle

CallNew ==
    /\ unit = "query"
    /\ query = None \/ hist # <<>>
    /\ query' = Some(EndpointQueryNew)
    /\ hist' = <<>>
    /\ last' = None
    /\ UNCHANGED exceptQuery

\* The builder is moved into the call: an Ok gives it back, an Err does not.
Returned(call, step) ==
    /\ last' = Some(Called(call, Unwrap(query), step))
    /\ IF step.ret.ok
       THEN query' = Some(step.ret.val) /\ hist' = Append(hist, call)
       ELSE query' = None /\ hist' = <<>>
    /\ UNCHANGED exceptQuery

\* MaxSteps bounds the steps that succeed: a failing call ends the builder
CallChainId ==
    /\ unit = "query" /\ query # None
    /\ \E x \in ChainArgs :
         /\ EndpointQueryChainId(Unwrap(query), x).ret.ok
               => Len(hist) < MaxSteps
         /\ Returned(BuilderCall("chain_id", x),
                     EndpointQueryChainId(Unwrap(query), x))

CallName ==
    /\ unit = "query" /\ query # None /\ Len(hist) < MaxSteps
    /\ \E n \in NameArgs :
         Returned(BuilderCall("name", n), EndpointQueryName(Unwrap(query), n))

CallUrl ==
    /\ unit = "query" /\ query # None /\ Len(hist) < MaxSteps
    /\ \E u \in UrlArgs :
         Returned(BuilderCall("url", u), EndpointQueryUrl(Unwrap(query), u))

NextQuery == CallNew \/ CallChainId \/ CallName \/ CallUrl

SpecQuery == InitQuery /\ [][NextQuery]_vars

----------------------------------------------------------------------------
(* Properties of the builder. *)

\* the orders in which n calls can be made: the permutations of 1..n
Orders(n) ==
    {f \in [1..n -> 1..n] : \A i, j \in 1..n : f[i] = f[j] => i = j}

\* the calls of h in the order f
Reorder(h, f) == [i \in 1..Len(h) |-> h[f[i]]]

\* the query that making the calls of h, in order, on q gives
RECURSIVE Build(_, _)
Build(q, h) ==
    IF h = <<>> THEN q ELSE Build(Apply(q, Head(h)).ret.val, Tail(h))

\* each setter is called with one argument throughout
OneArgEach(h) ==
    \A i, j \in 1..Len(h) : h[i].fn = h[j].fn => h[i].arg = h[j].arg

\* C4: the successful steps chain_id(c), name(n), url(u) applied to
\* EndpointQuery::new() in any other order give the query they gave in this one.
C4_StepsCommute ==
    (unit = "query" /\ query # None /\ OneArgEach(hist))
    => \A f \in Orders(Len(hist)) :
         Build(EndpointQueryNew, Reorder(hist, f)) = Unwrap(query)

\* url, chain_id, name were applied, in that order
C4_Witness ==
    /\ unit = "query" /\ query # None /\ Len(hist) = 3
    /\ hist[1].fn = "url" /\ hist[2].fn = "chain_id" /\ hist[3].fn = "name"
    /\ Unwrap(query).chain_id = Some(ChainId(<<49, 48>>))

IsText(x) == x.t \in {"String", "str"}

\* C5: chain_id on a string with a non-digit fails at once with
\* InvalidChainId and its `self` still holds the fields it was called with;
\* name and url do not fail.
C5_FailedStepKeepsFields ==
    (unit = "query" /\ last # None) =>
        LET l == Unwrap(last)
        IN  /\ (l.call.fn = "chain_id" /\ IsText(l.call.arg)
                    /\ HasNonDigit(l.call.arg.v))
               => /\ ~l.ret.ok
                  /\ l.ret.err = InvalidChainId(l.call.arg.v)
                  /\ l.self = l.before
            /\ l.call.fn \in {"name", "url"} => l.ret.ok

\* chain_id("1a") on a query that held a chain id, a name and a url
C5_Witness ==
    /\ unit = "query" /\ last # None
    /\ Unwrap(last).call.fn = "chain_id"
    /\ Unwrap(last).call.arg = Arg("str", <<49, 97>>)
    /\ ~Unwrap(last).ret.ok
    /\ Unwrap(last).before.chain_id # None
    /\ Unwrap(last).before.name_contains # None
    /\ Unwrap(last).before.url_contains # None

----------------------------------------------------------------------------
(* Endpoint, Profile, RpcConfig.  A HashMap is a function on its keys. *)

Endpoint(name, url, chain_id) ==
    [name |-> name, url |-> url, chain_id |-> chain_id,
     endpoint_metadata |-> <<>>]

\* Endpoint::chain_id_string: the chain id's digits, or "-" (45) for None
chain_id_string(self) ==
    IF self.chain_id = None THEN <<45>> ELSE Display(Unwrap(self.chain_id))

Profile(default_endpoint, network_defaults) ==
    [default_endpoint |-> default_endpoint,
     network_defaults |-> network_defaults]

RpcConfig(default_endpoint, network_defaults, endpoints, profiles) ==
    [mesc_version |-> "0.1.0",
     default_endpoint |-> default_endpoint,
     network_defaults |-> network_defaults,
     endpoints |-> endpoints,
     network_names |-> <<>>,
     profiles |-> profiles,
     global_metadata |-> <<>>]

\* HashMap::get
MapGet(m, k) == IF k \in DOMAIN m THEN Some(m[k]) ELSE None

----------------------------------------------------------------------------
(* Resolution of the default endpoint, in the order the specification      *)
(* gives: the profile's network default, the profile's default_endpoint,   *)
(* the global network default, the global default_endpoint.                *)

\* the name the precedence picks, if any
DefaultEndpointName(cfg, profile, chain_id) ==
    LET prof == IF profile = None THEN None
                ELSE MapGet(cfg.profiles, Unwrap(profile))
        profNet == IF prof = None \/ chain_id = None THEN None
                   ELSE MapGet(Unwrap(prof).network_defaults, Unwrap(chain_id))
        globNet == IF chain_id = None THEN None
                   ELSE MapGet(cfg.network_defaults, Unwrap(chain_id))
    IN  IF profNet # None THEN profNet
        ELSE IF prof # None /\ Unwrap(prof).default_endpoint # None
             THEN Unwrap(prof).default_endpoint
        ELSE IF globNet # None THEN globNet
        ELSE cfg.default_endpoint

\* get_default_endpoint: the endpoint of that name, by key lookup
MissingEndpoint(s) == <<"MissingEndpoint", s>>

GetDefaultEndpoint(cfg, profile, chain_id) ==
    LET name == DefaultEndpointName(cfg, profile, chain_id)
    IN  IF name = None THEN Ok(None)
        ELSE IF Unwrap(name) \in DOMAIN cfg.endpoints
             THEN Ok(Some(cfg.endpoints[Unwrap(name)]))
        ELSE Err(MissingEndpoint(Unwrap(name)))

----------------------------------------------------------------------------
(* Inputs of the resolution. *)

Chain1 == ChainId(<<49>>)
Chain5 == ChainId(<<53>>)

EndpointA == Endpoint("a", "https://a", Some(Chain1))
EndpointB == Endpoint("b", "https://b", Some(Chain1))

Endpoints == [n \in {"a", "b"} |-> IF n = "a" THEN EndpointA ELSE EndpointB]

DefaultNames == {None, Some("a"), Some("b"), Some("gone")}

NetworkDefaultMaps == UNION {[K -> {"a", "b"}] : K \in SUBSET {Chain1, Chain5}}

Configs ==
    {RpcConfig(d, nd, Endpoints, [p \in {"ci"} |-> Profile(pd, pnd)]) :
        d \in DefaultNames, nd \in NetworkDefaultMaps,
        pd \in DefaultNames, pnd \in NetworkDefaultMaps}

Request(profile, chain_id) == [profile |-> profile, chain_id |-> chain_id]

Requests ==
    {Request(p, c) : p \in {None, Some("ci"), Some("dev")},
                     c \in {None, Some(Chain1), Some(Chain5)}}

----------------------------------------------------------------------------
(* resolve: load a configuration, resolve default endpoints against it. *)

InitResolve ==
    /\ unit = "resolve"
    /\ ChainIdle
    /\ QueryIdle
    /\ ResolveIdle
    /\ PrintIdle

LoadConfig ==
    /\ unit = "resolve"
    /\ config = None
    /\ \E c \in Configs : config' = Some(c)
    /\ UNCHANGED <<request, resolved, exceptResolve>>

CallGetDefaultEndpoint ==
    /\ unit = "resolve"
    /\ config # None /\ request = None
    /\ \E r \in Requests :
         /\ request' = Some(r)
         /\ resolved' =
              Some(GetDefaultEndpoint(Unwrap(config), r.profile, r.chain_id))
    /\ UNCHANGED <<config, exceptResolve>>

ReturnResolved ==
    /\ unit = "resolve"
    /\ request # None
    /\ request' = None /\ resolved' = None
    /\ UNCHANGED <<config, exceptResolve>>

NextResolve == LoadConfig \/ CallGetDefaultEndpoint \/ ReturnResolved

SpecResolve == InitResolve /\ [][NextResolve]_vars

----------------------------------------------------------------------------
(* Properties of the resolution. *)

\* endpoints a and b on chain 1, network_defaults {1: a}, default_endpoint b,
\* profile ci = {default_endpoint: b, network_defaults: {}}
Scenario ==
    RpcConfig(Some("b"), [k \in {Chain1} |-> "a"], Endpoints,
              [p \in {"ci"} |-> Profile(Some("b"), <<>>)])

Asked(profile, chain_id) ==
    /\ unit = "resolve" /\ config = Some(Scenario)
    /\ request = Some(Request(profile, chain_id))

\* C6: in the scenario, profile ci with chain id 1 resolves to endpoint a
\* and profile ci with no chain id resolves to endpoint b.
C6_ScenarioResolves ==
    /\ Asked(Some("ci"), Some(Chain1)) => resolved = Some(Ok(Some(EndpointA)))
    /\ Asked(Some("ci"), None) => resolved = Some(Ok(Some(EndpointB)))

----------------------------------------------------------------------------
(* mesc_cli printing. *)

\* (variant: endpoints compared by what the network column shows)
EndpointCmpByDisplay(e1, e2) ==
    ChainIdCmp(ChainId(chain_id_string(e1)), ChainId(chain_id_string(e2)))

\* the comparator of sorted_endpoints.sort_by: the chain ids compared, a
\* missing one replaced by the null chain id
EndpointCmp(e1, e2) ==
    ChainIdCmp(IF e1.chain_id # None THEN Unwrap(e1.chain_id) ELSE null_chain_id,
               IF e2.chain_id # None THEN Unwrap(e2.chain_id) ELSE null_chain_id)

\* slice::sort_by is a stable sort: x goes behind every element that is not
\* Greater than it
Insert(sorted, x) ==
    LET k == Cardinality({i \in 1..Len(sorted) :
                            EndpointCmp(sorted[i], x) # "Greater"})
    IN  SubSeq(sorted, 1, k) \o <<x>> \o SubSeq(sorted, k + 1, Len(sorted))

RECURSIVE SortBy(_)
SortBy(s) ==
    IF s = <<>> THEN <<>>
    ELSE Insert(SortBy(SubSeq(s, 1, Len(s) - 1)), s[Len(s)])

\* "*".repeat(8)
Mask == "********"

\* (variant: the url shown whatever reveal is)
UrlCellRevealed(endpoint, reveal) == endpoint.url

\* the url cell of a row: the url if reveal, else the mask
UrlCell(endpoint, reveal) == IF reveal THEN endpoint.url ELSE Mask

Column(header, cells) == [header |-> header, cells |-> cells]

\* What a printing function did: the lines it printed itself, the columns it
\* handed to the table it printed, its local sorted_endpoints, its result.
Printed(stdout, table, sorted, ret) ==
    [stdout |-> stdout, table |-> table, sorted_endpoints |-> sorted,
     ret |-> ret]

print_endpoints(endpoints, reveal) ==
    IF endpoints = <<>>
    THEN Printed(<<"[none]">>, None, <<>>, Ok(<<>>))
    ELSE LET sorted_endpoints == SortBy(endpoints)
             rows == DOMAIN sorted_endpoints
             names == [i \in rows |-> sorted_endpoints[i].name]
             networks == [i \in rows |-> chain_id_string(sorted_endpoints[i])]
             urls == [i \in rows |-> UrlCell(sorted_endpoints[i], reveal)]
         IN  Printed(<<>>,
                     Some(<<Column("endpoint", names),
                            Column("network", networks),
                            Column("url", urls)>>),
                     sorted_endpoints, Ok(<<>>))

\* print_defaults, given what mesc::get_default_endpoint(None) returned and
\* the order in which config.network_defaults.iter() yields its keys
print_defaults(cfg, default, keys) ==
    IF ~default.ok THEN Printed(<<>>, None, <<>>, Err(default.err))
    ELSE LET found == default.val # None
             classes == <<"global default">>
                          \o [i \in DOMAIN keys |-> "network default"]
             networks == (IF found THEN <<chain_id_string(Unwrap(default.val))>>
                          ELSE <<>>)
                          \o [i \in DOMAIN keys |-> Display(keys[i])]
             names == (IF found THEN <<Unwrap(default.val).name>> ELSE <<>>)
                          \o [i \in DOMAIN keys |-> cfg.network_defaults[keys[i]]]
         IN  Printed(<<>>,
                     Some(<<Column("", classes),
                            Column("network", networks),
                            Column("endpoint", names)>>),
                     <<>>, Ok(<<>>))

----------------------------------------------------------------------------
(* Inputs of the printing functions. *)

\* None, "0", "7", "10", and 1 followed by PadWidth zeros
PrintChainIds ==
    {None, Some(ChainId(<<48>>)), Some(ChainId(<<55>>)),
     Some(ChainId(<<49, 48>>)),
     Some(ChainId([i \in 1..(PadWidth + 1) |-> IF i = 1 THEN 49 ELSE 48]))}

PrintEndpoints ==
    {Endpoint(n, IF n = "a" THEN "https://x" ELSE "https://y", c) :
        n \in {"a", "b"}, c \in PrintChainIds}

EndpointLists == UNION {[1..n -> PrintEndpoints] : n \in 0..MaxEndpoints}

\* what mesc::get_default_endpoint(None) can return
DefaultResults ==
    {Err(<<"MescNotEnabled", "">>), Ok(None), Ok(Some(EndpointA)),
     Ok(Some(Endpoint("c", "https://c", None)))}

\* the orders in which a HashMap's iterator can yield the keys of m
KeyOrders(m) ==
    {s \in [1..Cardinality(DOMAIN m) -> DOMAIN m] :
        \A i, j \in DOMAIN s : s[i] = s[j] => i = j}

----------------------------------------------------------------------------
(* printing: one call of a printing function at a time. *)

InitPrint ==
    /\ unit = "printing"
    /\ ChainIdle
    /\ QueryIdle
    /\ ResolveIdle
    /\ PrintIdle

CallPrintEndpoints ==
    /\ unit = "printing"
    /\ cli = None
    /\ \E endpoints \in EndpointLists, reveal \in BOOLEAN :
         /\ cli' = Some([fn |-> "print_endpoints", endpoints |-> endpoints,
                         reveal |-> reveal])
         /\ out' = Some(print_endpoints(endpoints, reveal))
    /\ UNCHANGED exceptPrint

CallPrintDefaults ==
    /\ unit = "printing"
    /\ cli = None
    /\ \E nd \in NetworkDefaultMaps, d \in DefaultResults :
         \E keys \in KeyOrders(nd) :
            LET cfg == RpcConfig(None, nd, Endpoints, <<>>)
            IN  /\ cli' = Some([fn |-> "print_defaults", config |-> cfg,
                                default |-> d, keys |-> keys])
                /\ out' = Some(print_defaults(cfg, d, keys))
    /\ UNCHANGED exceptPrint

ReturnPrinted ==
    /\ unit = "printing"
    /\ cli # None
    /\ cli' = None /\ out' = None
    /\ UNCHANGED exceptPrint

NextPrint == CallPrintEndpoints \/ CallPrintDefaults \/ ReturnPrinted

SpecPrint == InitPrint /\ [][NextPrint]_vars

----------------------------------------------------------------------------
(* Properties of the printing functions. *)

PrintedEndpoints ==
    unit = "printing" /\ cli # None /\ Unwrap(cli).fn = "print_endpoints"

PrintedDefaults ==
    unit = "printing" /\ cli # None /\ Unwrap(cli).fn = "print_defaults"

\* the chain id an endpoint is ordered by
OrderKey(e) == IF e.chain_id = None THEN <<<<48>>>> ELSE Unwrap(e.chain_id)

SameKey(e1, e2) == ChainIdCmp(OrderKey(e1), OrderKey(e2)) = "Equal"

\* the elements of s that are ordered as e is, in their order in s
RECURSIVE Peers(_, _)
Peers(s, e) ==
    IF s = <<>> THEN <<>>
    ELSE (IF SameKey(s[1], e) THEN <<s[1]>> ELSE <<>>) \o Peers(Tail(s), e)

Count(s, e) == Cardinality({i \in DOMAIN s : s[i] = e})

\* a chain id that is a positive integer
IsPositive(c) == ~HasNonDigit(c[1]) /\ \E i \in 1..Len(c[1]) : c[1][i] # 48

\* C7: the rows are the input endpoints, permuted into non-decreasing ChainId
\* order (that of Ord::cmp) with a missing chain id ordered as "0", before
\* every positive chain id, and shown as "-"; endpoints that compare equal
\* keep their input order; an empty input prints "[none]" and no table.
C7_RowsSortedStably ==
    PrintedEndpoints =>
        LET eps == Unwrap(cli).endpoints
            o == Unwrap(out)
            s == o.sorted_endpoints
        IN  IF eps = <<>>
            THEN o.stdout = <<"[none]">> /\ o.table = None
            ELSE /\ o.stdout = <<>> /\ o.table # None
                 /\ Len(s) = Len(eps)
                 /\ \A i \in DOMAIN eps :
                      /\ Count(s, eps[i]) = Count(eps, eps[i])
                      /\ Peers(s, eps[i]) = Peers(eps, eps[i])
                 /\ \A i \in 1..(Len(s) - 1) :
                      ChainIdCmp(OrderKey(s[i]), OrderKey(s[i + 1])) # "Greater"
                 /\ \A i, j \in DOMAIN s :
                      (s[i].chain_id = None /\ s[j].chain_id # None
                          /\ IsPositive(Unwrap(s[j].chain_id))) => i < j
                 /\ LET t == Unwrap(o.table)
                    IN  /\ Len(t) = 3
                        /\ t[1].header = "endpoint" /\ t[2].header = "network"
                        /\ \A c \in 1..3 : DOMAIN t[c].cells = DOMAIN s
                        /\ \A i \in DOMAIN s :
                             /\ t[1].cells[i] = s[i].name
                             /\ t[2].cells[i] =
                                  IF s[i].chain_id = None THEN <<45>>
                                  ELSE Unwrap(s[i].chain_id)[1]

\* endpoints with chain ids "10", none, "0" are listed as -, "0", "10"
C7_Witness ==
    /\ PrintedEndpoints
    /\ Len(Unwrap(cli).endpoints) = 3
    /\ Unwrap(cli).endpoints[1].chain_id = Some(ChainId(<<49, 48>>))
    /\ Unwrap(cli).endpoints[2].chain_id = None
    /\ Unwrap(cli).endpoints[3].chain_id = Some(ChainId(<<48>>))
    /\ Unwrap(Unwrap(out).table)[2].cells = <<<<45>>, <<48>>, <<49, 48>>>>

\* the input with every url replaced
Redacted(eps) == [i \in DOMAIN eps |-> [eps[i] EXCEPT !.url = ""]]

\* what the user sees
Visible(o) == <<o.stdout, o.table>>

\* C10: without reveal every url cell is the mask and the output is that of
\* the input with other urls; with reveal each url cell is the row's url.
C10_UrlsMaskedUnlessRevealed ==
    (PrintedEndpoints /\ Unwrap(cli).endpoints # <<>>) =>
        LET eps == Unwrap(cli).endpoints
            o == Unwrap(out)
            urls == Unwrap(o.table)[3]
        IN  /\ urls.header = "url"
            /\ IF Unwrap(cli).reveal
               THEN \A i \in DOMAIN urls.cells :
                        urls.cells[i] = o.sorted_endpoints[i].url
               ELSE /\ \A i \in DOMAIN urls.cells : urls.cells[i] = "********"
                    /\ Visible(print_endpoints(Redacted(eps), FALSE)) = Visible(o)

\* two endpoints with different urls printed without reveal
C10_Witness ==
    /\ PrintedEndpoints /\ ~Unwrap(cli).reveal
    /\ Len(Unwrap(cli).endpoints) = 2
    /\ Unwrap(cli).endpoints[1].url # Unwrap(cli).endpoints[2].url
    /\ Unwrap(out).table # None

\* C9: the three columns print_defaults hands to the table have the same
\* number of rows.
C9_ColumnsSameLength ==
    (PrintedDefaults /\ Unwrap(out).table # None) =>
        LET t == Unwrap(Unwrap(out).table)
        IN  /\ Len(t[1].cells) = Len(t[2].cells)
            /\ Len(t[2].cells) = Len(t[3].cells)

----------------------------------------------------------------------------
Init == InitChainIds \/ InitQuery \/ InitResolve \/ InitPrint
Next == NextChainIds \/ NextQuery \/ NextResolve \/ NextPrint
Spec == Init /\ [][Next]_vars
=============================================================================
